---- MODULE Spec2Model ----
(***************************************************************************)
(* Model of zod-enum-forge (src/src/index.ts): flexible enums over a       *)
(* schema tree, the data-driven widening of flexEnum(schema, data), and    *)
(* the explicit editors forgeEnum / limitEnum.  Spec runs the operations   *)
(* on an evolving object schema; SpecNode applies the operations that take *)
(* a label sequence, a single node or a field name; SpecLayer runs         *)
(* strictEnum, separateFlexibility and integrateFlexibility on schemas     *)
(* with flexible leaves at depths 1 to 3; SpecMix runs all of them in any  *)
(* order.                                                                  *)
(*                                                                         *)
(* Representation.                                                         *)
(*  - A string is a sequence of tokens, so String.prototype.includes is a  *)
(*    contiguous-subsequence test.  Labels stand for strings that are not  *)
(*    canonical array indices, for which Object.values keeps insertion     *)
(*    order.                                                               *)
(*  - An optional value is a set with at most one element (None, Some(v)). *)
(*  - A schema node is a record with a "kind" (the Zod type name), the     *)
(*    library generation "gen" that built it, the fields of its def, and   *)
(*    "ref", the number of the call that allocated it: two nodes are the   *)
(*    same JavaScript object only if they are equal records, and a node    *)
(*    allocated by the running call differs from every older node.         *)
(*  - The schema library is used through its constructors only (enum,      *)
(*    string().describe, or, nullable, optional, extend); describe(d) is   *)
(*    taken to store d where getDef(node).description reads it.            *)
(*  - A dotted path is the token sequence of its field names joined by     *)
(*    ".", so two different fields can have the same dotted path.  Field   *)
(*    names are not names of Object.prototype properties.                  *)
(*  - chain holds the schemas as they were when returned.  _strictOne      *)
(*    clears the metadata of an existing node by assignment; the returned  *)
(*    value carries the cleared node, and op.after is the argument of the  *)
(*    call as the call leaves it.                                          *)
(***************************************************************************)
EXTENDS Integers, Sequences, FiniteSets, TLC

VARIABLES schema, zodVersion, calls, chain, op

vars == <<schema, zodVersion, calls, chain, op>>

\* ---------------------------------------------------------------- bounds
MaxCalls == 2

\* ---------------------------------------------------------------- strings
None == {}
Some(v) == {v}

\* JavaScript `o || d` for an optional string: undefined and "" are falsy.
OrElse(o, d) == IF o = None \/ o = Some(<<>>) THEN d ELSE CHOOSE v \in o : TRUE

\* JavaScript `a || b` for two optional strings.
OrOpt(a, b) == IF a = None \/ a = Some(<<>>) THEN b ELSE a

DEFAULT_DESC == <<"If none of the existing enum values match,", "Don't copy this description to the new value.">>

UNKNOWN == <<"unknown">>

\* String.prototype.includes
Includes(s, sub) ==
  \E i \in 1..(Len(s) - Len(sub) + 1) : SubSeq(s, i, i + Len(sub) - 1) = sub

sanitizeEnumValueExact(value) ==
  IF value = DEFAULT_DESC THEN UNKNOWN ELSE value

sanitizeEnumValue(value) ==
  IF value = DEFAULT_DESC \/ Includes(value, DEFAULT_DESC) THEN UNKNOWN ELSE value

\* [...new Set(values)]: first occurrences, in order.
Unique(values) ==
  LET F[i \in 0..Len(values)] ==
        IF i = 0 THEN <<>>
        ELSE IF \E j \in 1..Len(F[i-1]) : F[i-1][j] = values[i]
             THEN F[i-1]
             ELSE Append(F[i-1], values[i])
  IN F[Len(values)]

toTupleKeepRepeats(values) == values

toTuple(values) == Unique(values)

\* toTuple throws "Enum must have at least one value."
toTupleThrows(values) == Unique(values) = <<>>

Range(s) == {s[i] : i \in 1..Len(s)}

\* ---------------------------------------------------------------- nodes
Gens == {"v3", "v4"}

NoMeta == [present |-> FALSE, enumForge |-> FALSE, description |-> None]

Meta(desc) == [present |-> TRUE, enumForge |-> TRUE, description |-> desc]

ZEnum(gen, values, ref) ==
  [kind |-> "ZodEnum", gen |-> gen, values |-> values, metadata |-> NoMeta, ref |-> ref]

ZString(gen, desc, ref) ==
  [kind |-> "ZodString", gen |-> gen, description |-> desc, metadata |-> NoMeta, ref |-> ref]

ZNumber(gen, ref) ==
  [kind |-> "ZodNumber", gen |-> gen, metadata |-> NoMeta, ref |-> ref]

ZUnion(options, ref) ==
  [kind |-> "ZodUnion", gen |-> options[1].gen, options |-> options, metadata |-> NoMeta, ref |-> ref]

ZOptional(inner, ref) ==
  [kind |-> "ZodOptional", gen |-> inner.gen, innerType |-> inner, metadata |-> NoMeta, ref |-> ref]

ZNullable(inner, ref) ==
  [kind |-> "ZodNullable", gen |-> inner.gen, innerType |-> inner, metadata |-> NoMeta, ref |-> ref]

ZObject(gen, shape, ref) ==
  [kind |-> "ZodObject", gen |-> gen, shape |-> shape, metadata |-> NoMeta, ref |-> ref]

\* schema.extend(modified): a new object node, the given fields replaced.
Extend(obj, modified, ref) ==
  ZObject(obj.gen,
          [k \in DOMAIN obj.shape |-> IF k \in DOMAIN modified THEN modified[k] ELSE obj.shape[k]],
          ref)

setMetadata(node, metadata) == [node EXCEPT !.metadata = metadata]

NoNode == [kind |-> "none"]

\* ---------------------------------------------------------------- introspection
isZodObject(x) == x.kind = "ZodObject"
isZodEnum(x) == x.kind = "ZodEnum"
isZodUnion(x) == x.kind = "ZodUnion"
isZodString(x) == x.kind = "ZodString"
isZodOptional(x) == x.kind = "ZodOptional"
isZodNullable(x) == x.kind = "ZodNullable"

unwrapOptional(x) == IF isZodOptional(x) THEN x.innerType ELSE x
unwrapNullable(x) == IF isZodNullable(x) THEN x.innerType ELSE x

unwrapOptionalAndNullable(x) ==
  LET s1 == unwrapOptional(x)
      s2 == unwrapNullable(s1)
      s3 == unwrapOptional(s2)
  IN [schema |-> s3,
      isOptional |-> isZodOptional(x) \/ isZodOptional(s2),
      isNullable |-> isZodNullable(s1)]

getEnumValues(enumDef) == enumDef.values

isFlexEnumAnyArity(x) ==
  IF isZodUnion(x)
  THEN /\ isZodEnum(x.options[1])
       /\ isZodString(x.options[2])
       /\ x.metadata.enumForge = TRUE
  ELSE IF isZodEnum(x)
       THEN x.metadata.enumForge = TRUE
       ELSE FALSE

isFlexEnum(x) ==
  IF isZodUnion(x)
  THEN /\ Len(x.options) = 2
       /\ isZodEnum(x.options[1])
       /\ isZodString(x.options[2])
       /\ x.metadata.enumForge = TRUE
  ELSE IF isZodEnum(x)
       THEN x.metadata.enumForge = TRUE
       ELSE FALSE

getZodInstanceFromSchema(x) == x.gen

detectZodVersion(x) == x.gen

RewrapOptionalOnly(node, isOptional, isNullable, ref) ==
  IF isOptional THEN ZOptional(node, ref) ELSE node

\* if (isNullable) f = f.nullable(); if (isOptional) f = f.optional();
Rewrap(node, isOptional, isNullable, ref) ==
  LET n1 == IF isNullable THEN ZNullable(node, ref) ELSE node
  IN IF isOptional THEN ZOptional(n1, ref) ELSE n1

\* ---------------------------------------------------------------- data
UNDEF == [t |-> "undefined"]
NULL == [t |-> "null"]
NUM == [t |-> "number"]
Str(s) == [t |-> "string", s |-> s]
Obj(f) == [t |-> "object", f |-> f]

\* data?.[key]
Get(data, key) ==
  IF data.t = "object" /\ key \in DOMAIN data.f THEN data.f[key] ELSE UNDEF

Truthy(v) == v.t = "object" \/ v.t = "number" \/ (v.t = "string" /\ v.s # <<>>)

\* ---------------------------------------------------------------- results
Ok(node) == [threw |-> FALSE, message |-> <<>>, node |-> node]
Throw(message) == [threw |-> TRUE, message |-> message, node |-> NoNode]

\* ---------------------------------------------------------------- flexEnum
\* flexEnum(values | enumDef, description?): enumDef.or(string().describe(d)),
\* tagged { enumForge: true, description: d }.
flexEnumCreate(zodInstance, enumDef, description, ref) ==
  LET d == OrElse(description, DEFAULT_DESC)
      stringSchema == ZString(zodInstance, Some(d), ref)
      flexibleEnum == ZUnion(<<enumDef, stringSchema>>, ref)
  IN setMetadata(flexibleEnum, Meta(Some(d)))

WidenedUnionReplace(zod, currentValues, value, description, ref) ==
  setMetadata(ZUnion(<<ZEnum(zod, <<sanitizeEnumValue(value)>>, ref),
                       ZString(zod, Some(description), ref)>>, ref), Meta(None))

WidenedUnionPrepend(zod, currentValues, value, description, ref) ==
  setMetadata(ZUnion(<<ZEnum(zod, toTuple(<<sanitizeEnumValue(value)>> \o currentValues), ref),
                       ZString(zod, Some(description), ref)>>, ref), Meta(None))

WidenedUnionPlain(zod, currentValues, value, description, ref) ==
  ZEnum(zod, toTuple(Append(currentValues, sanitizeEnumValue(value))), ref)

WidenedUnionDefaultDesc(zod, currentValues, value, description, ref) ==
  setMetadata(ZUnion(<<ZEnum(zod, toTuple(Append(currentValues, sanitizeEnumValue(value))), ref),
                       ZString(zod, Some(DEFAULT_DESC), ref)>>, ref), Meta(None))

\* flexEnum(values, description?), overload 1; z is the module-level instance.
flexEnumValues(values, description, z, ref) ==
  IF toTupleThrows(values)
  THEN Throw(<<"Enum must have at least one value.">>)
  ELSE Ok(flexEnumCreate(z, ZEnum(z, toTuple(values), ref), description, ref))

\* flexEnum(enumDef, description?), overload 2, and the final throw for a node that
\* is neither an enumerated node nor an object schema.
flexEnumNode(enumDef, description, ref) ==
  IF isZodEnum(enumDef)
  THEN Ok(flexEnumCreate(getZodInstanceFromSchema(enumDef), enumDef, description, ref))
  ELSE Throw(<<"Invalid flexEnum signature.">>)

\* The widened union built in all three enum branches of updateSchemaFromData.
WidenedUnion(zod, currentValues, value, description, ref) ==
  LET sanitizedValue == sanitizeEnumValue(value)
      newEnumValues == Append(currentValues, sanitizedValue)
      newEnum == ZEnum(zod, toTuple(newEnumValues), ref)
      newStringPart == ZString(zod, Some(description), ref)
      newUnion == ZUnion(<<newEnum, newStringPart>>, ref)
  IN setMetadata(newUnion, Meta(None))

IsNovelAnyString(value, currentValues) == value.t = "string"

\* typeof value === 'string' && !currentValues.includes(value)
IsNovel(value, currentValues) ==
  value.t = "string" /\ value.s \notin Range(currentValues)

RECURSIVE updateSchemaFromData(_, _, _, _)
RECURSIVE UpdatedField(_, _, _, _)

\* One iteration of the loop over shape: the entry put in modifiedFields, if any.
UpdatedField(field, value, zod, ref) ==
  LET u == unwrapOptionalAndNullable(field)
      unwrappedField == u.schema
  IN IF isZodObject(unwrappedField) /\ Truthy(value)
     THEN LET newField == updateSchemaFromData(unwrappedField, value, zod, ref)
          IN IF newField # unwrappedField
             THEN Some(Rewrap(newField, u.isOptional, u.isNullable, ref))
             ELSE None
     ELSE IF isFlexEnum(unwrappedField)
     THEN IF isZodUnion(unwrappedField)
          THEN LET enumPart == unwrappedField.options[1]
                   stringPart == unwrappedField.options[2]
                   currentValues == getEnumValues(enumPart)
               IN IF IsNovel(value, currentValues)
                  THEN Some(Rewrap(WidenedUnion(zod, currentValues, value.s,
                                                OrElse(stringPart.description, DEFAULT_DESC), ref),
                                   u.isOptional, u.isNullable, ref))
                  ELSE None
          ELSE LET currentValues == getEnumValues(unwrappedField)
                   metadata == unwrappedField.metadata
               IN IF IsNovel(value, currentValues)
                  THEN Some(Rewrap(WidenedUnion(zod, currentValues, value.s,
                                                OrElse(metadata.description, DEFAULT_DESC), ref),
                                   u.isOptional, u.isNullable, ref))
                  ELSE None
     ELSE IF isZodEnum(unwrappedField)
     THEN LET currentValues == getEnumValues(unwrappedField)
          IN IF IsNovel(value, currentValues)
             THEN Some(Rewrap(WidenedUnion(zod, currentValues, value.s, DEFAULT_DESC, ref),
                              u.isOptional, u.isNullable, ref))
             ELSE None
     ELSE None

updateSchemaFromData(sch, data, zod, ref) ==
  LET shape == sch.shape
      upd == [key \in DOMAIN shape |-> UpdatedField(shape[key], Get(data, key), zod, ref)]
      modifiedKeys == {key \in DOMAIN shape : upd[key] # None}
      modifiedFields == [key \in modifiedKeys |-> CHOOSE f \in upd[key] : TRUE]
  IN IF modifiedKeys # {} THEN Extend(sch, modifiedFields, ref) ELSE sch

\* flexEnum(schema, dataJson), overload 3 and the final throw.
flexEnumData(sch, data, ref) ==
  IF isZodObject(sch) /\ Truthy(data)
  THEN Ok(updateSchemaFromData(sch, data, getZodInstanceFromSchema(sch), ref))
  ELSE Throw(<<"Invalid flexEnum signature.">>)

\* ---------------------------------------------------------------- forgeEnum
getNewValuesAddFirst(base, add) ==
  toTuple([i \in 1..Len(add) |-> sanitizeEnumValue(add[i])] \o base)

getNewValues(base, add) ==
  LET sanitizedToAdd == [i \in 1..Len(add) |-> sanitizeEnumValue(add[i])]
  IN toTuple(base \o sanitizedToAdd)

\* forgeEnum(values, add), overload 1; z is the module-level instance.
forgeEnumValues(values, add, z, ref) ==
  IF toTupleThrows(values \o [i \in 1..Len(add) |-> sanitizeEnumValue(add[i])])
  THEN Throw(<<"Enum must have at least one value.">>)
  ELSE Ok(ZEnum(z, getNewValues(values, add), ref))

\* forgeEnum(enumDef, add), overload 2, and the final throw for any other node.
forgeEnumNode(enumDef, add, z, ref) ==
  IF isZodEnum(enumDef)
  THEN Ok(ZEnum(z, getNewValues(getEnumValues(enumDef), add), ref))
  ELSE Throw(<<"Invalid forgeEnum signature.">>)

\* forgeEnum(schema, key, add), overload 3; z is the module-level instance.
forgeEnumKey(sch, key, add, z, ref) ==
  IF key \notin DOMAIN sch.shape
  THEN Throw(<<"Field \"", key, "\" is not a ZodEnum.">>)
  ELSE LET u == unwrapOptionalAndNullable(sch.shape[key])
           unwrappedField == u.schema
       IN IF ~isZodEnum(unwrappedField)
          THEN Throw(<<"Field \"", key, "\" is not a ZodEnum.">>)
          ELSE LET baseValues == getEnumValues(unwrappedField)
                   newValues == getNewValues(baseValues, add)
                   newEnum == Rewrap(ZEnum(z, newValues, ref), u.isOptional, u.isNullable, ref)
               IN Ok(Extend(sch, [k \in {key} |-> newEnum], ref))

\* ---------------------------------------------------------------- limitEnum
filterValuesKeepAll(vals, rem) == vals

\* vals.filter(v => !rem.has(v))
filterValues(vals, rem) == SelectSeq(vals, LAMBDA v : v \notin rem)

processFlexOrEnumNoGuard(target, remove, zodInstance, ref) ==
  LET remSet == Range(remove)
  IN IF isZodEnum(target)
     THEN Ok(ZEnum(zodInstance, toTuple(filterValues(getEnumValues(target), remSet)), ref))
     ELSE IF isFlexEnum(target)
     THEN LET description == OrElse(target.options[2].description, DEFAULT_DESC)
          IN Ok(setMetadata(ZUnion(<<ZEnum(zodInstance,
                                           toTuple(filterValues(getEnumValues(target.options[1]), remSet)),
                                           ref),
                                     ZString(zodInstance, Some(description), ref)>>, ref),
                            Meta(Some(description))))
     ELSE Throw(<<"limitEnum: unsupported target type.">>)

processFlexOrEnumUntagged(target, remove, zodInstance, ref) ==
  LET remSet == Range(remove)
      values == IF isZodEnum(target) THEN getEnumValues(target)
                ELSE IF isFlexEnum(target) THEN getEnumValues(target.options[1]) ELSE <<>>
      next == filterValues(values, remSet)
  IN IF ~(isZodEnum(target) \/ isFlexEnum(target))
     THEN Throw(<<"limitEnum: unsupported target type.">>)
     ELSE IF Len(next) = 0
     THEN Throw(<<"Resulting enum would be empty.">>)
     ELSE IF isZodEnum(target)
     THEN Ok(ZEnum(zodInstance, toTuple(next), ref))
     ELSE Ok(ZUnion(<<ZEnum(zodInstance, toTuple(next), ref),
                      ZString(zodInstance, Some(OrElse(target.options[2].description, DEFAULT_DESC)), ref)>>,
                    ref))

\* The isZodEnum test comes first, so the later branch for a tagged plain enum is
\* never taken.
processFlexOrEnum(target, remove, zodInstance, ref) ==
  LET remSet == Range(remove)
  IN IF isZodEnum(target)
     THEN LET next == filterValues(getEnumValues(target), remSet)
          IN IF Len(next) = 0
             THEN Throw(<<"Resulting enum would be empty.">>)
             ELSE Ok(ZEnum(zodInstance, toTuple(next), ref))
     ELSE IF isFlexEnum(target)
     THEN LET enumPart == target.options[1]
              stringPart == target.options[2]
              next == filterValues(getEnumValues(enumPart), remSet)
              description == OrElse(stringPart.description, DEFAULT_DESC)
          IN IF Len(next) = 0
             THEN Throw(<<"Resulting enum would be empty.">>)
             ELSE Ok(setMetadata(ZUnion(<<ZEnum(zodInstance, toTuple(next), ref),
                                          ZString(zodInstance, Some(description), ref)>>, ref),
                                 Meta(Some(description))))
     ELSE Throw(<<"limitEnum: unsupported target type.">>)

\* if (isNullable) out = out.nullable(); if (isOptional) out = out.optional();
wrapEnumLike(original, replacementEnum, isOptional, isNullable, ref) ==
  LET out == IF isNullable THEN ZNullable(replacementEnum, ref) ELSE replacementEnum
  IN IF isOptional THEN ZOptional(out, ref) ELSE out

\* limitEnum(values, remove), overload 1; z is the module-level instance.
limitEnumValues(values, remove, z, ref) ==
  LET next == filterValues(values, Range(remove))
  IN IF Len(next) = 0
     THEN Throw(<<"Resulting enum would be empty.">>)
     ELSE Ok(ZEnum(z, toTuple(next), ref))

\* limitEnum(enumOrFlex, remove), overload 2, and the final throw for any other node.
limitEnumNode(a1, remove, ref) ==
  IF isZodEnum(a1) \/ isFlexEnum(a1)
  THEN processFlexOrEnum(a1, remove, getZodInstanceFromSchema(a1), ref)
  ELSE Throw(<<"Invalid limitEnum signature.">>)

\* limitEnum(schema, key, remove), overload 3.  With no field at key, isFlexEnum
\* reads the def of undefined, which throws a TypeError.
limitEnumKey(sch, key, remove, ref) ==
  IF key \notin DOMAIN sch.shape
  THEN Throw(<<"TypeError: Cannot read properties of undefined">>)
  ELSE LET u == unwrapOptionalAndNullable(sch.shape[key])
           unwrapped == u.schema
           zodInstance == getZodInstanceFromSchema(unwrapped)
       IN IF ~(isZodEnum(unwrapped) \/ isFlexEnum(unwrapped))
          THEN Throw(<<"Field \"", key, "\" is not a ZodEnum / flexEnum.">>)
          ELSE LET updated == processFlexOrEnum(unwrapped, remove, zodInstance, ref)
               IN IF updated.threw
                  THEN updated
                  ELSE Ok(Extend(sch, [k \in {key} |->
                                         wrapEnumLike(sch.shape[key], updated.node,
                                                      u.isOptional, u.isNullable, ref)], ref))

\* ---------------------------------------------------------------- strictEnum
RECURSIVE SetInner(_, _)
\* The field after the node under its wrappers was changed in place to v.
SetInner(field, v) ==
  IF isZodOptional(field) \/ isZodNullable(field)
  THEN [field EXCEPT !.innerType = SetInner(field.innerType, v)]
  ELSE v

strictOneKeepTag(x, ref) ==
  LET u == unwrapOptionalAndNullable(x)
  IN Rewrap(u.schema, u.isOptional, u.isNullable, ref)

\* _strictOne: the enumerated branch of a flexible union, or the node itself, with its
\* metadata set to undefined (an assignment to the existing node), rewrapped.
strictOne(x, ref) ==
  LET u == unwrapOptionalAndNullable(x)
      unwrapped == u.schema
      rebuilt == IF isFlexEnum(unwrapped) /\ isZodUnion(unwrapped)
                 THEN setMetadata(unwrapped.options[1], NoMeta)
                 ELSE setMetadata(unwrapped, NoMeta)
  IN Rewrap(rebuilt, u.isOptional, u.isNullable, ref)

RECURSIVE strictTraverse(_, _)
RECURSIVE StrictField(_, _)

\* One iteration of the loop of _strictTraverse: the field as it is after the
\* iteration, and whether it was entered in `modified`.  A tagged plain enum without
\* wrappers is cleared in place and is its own replacement, so finalField === field.
StrictField(field, ref) ==
  LET u == unwrapOptionalAndNullable(field)
      unwrapped == u.schema
  IN IF isFlexEnum(unwrapped)
     THEN LET cleaned == strictOne(unwrapped, ref)
              finalField == Rewrap(cleaned, u.isOptional, u.isNullable, ref)
              sameObject == isZodEnum(unwrapped) /\ ~u.isOptional /\ ~u.isNullable
          IN [field |-> finalField, modified |-> ~sameObject]
     ELSE IF isZodObject(unwrapped)
     THEN LET nested == strictTraverse(unwrapped, ref)
          IN IF ~nested.same
             THEN [field |-> Rewrap(nested.node, u.isOptional, u.isNullable, ref), modified |-> TRUE]
             ELSE [field |-> SetInner(field, nested.node), modified |-> FALSE]
     ELSE [field |-> field, modified |-> FALSE]

\* _strictTraverse: the object returned, and whether it is the object passed in.
strictTraverse(sch, ref) ==
  LET shape == sch.shape
      r == [key \in DOMAIN shape |-> StrictField(shape[key], ref)]
      modifiedKeys == {key \in DOMAIN shape : r[key].modified}
      current == [sch EXCEPT !.shape = [key \in DOMAIN shape |-> r[key].field]]
  IN IF modifiedKeys # {}
     THEN [node |-> Extend(current, [key \in modifiedKeys |-> r[key].field], ref), same |-> FALSE]
     ELSE [node |-> current, same |-> TRUE]

\* strictEnum(schemaOrFlex); deflexStructure is the same function.
strictEnum(schemaOrFlex, ref) ==
  IF isFlexEnum(schemaOrFlex) \/ isZodEnum(schemaOrFlex)
  THEN Ok(strictOne(schemaOrFlex, ref))
  ELSE IF isZodObject(schemaOrFlex)
  THEN Ok(strictTraverse(schemaOrFlex, ref).node)
  ELSE Throw(<<"strictEnum expects a flexEnum / enum / ZodObject structure">>)

\* The node passed to _strictOne as the call leaves it: setMetadata(.., undefined)
\* assigns to the def of the enumerated branch of a flexible union, or of the node
\* under the wrappers.
strictOneLeaves(x) ==
  LET unwrapped == unwrapOptionalAndNullable(x).schema
  IN SetInner(x, IF isFlexEnum(unwrapped) /\ isZodUnion(unwrapped)
                 THEN [unwrapped EXCEPT !.options[1] = setMetadata(@, NoMeta)]
                 ELSE setMetadata(unwrapped, NoMeta))

RECURSIVE strictTraverseLeaves(_)
\* The object passed to _strictTraverse or _separateTraverse as the call leaves it:
\* both hand the node under the wrappers of every flexible field to _strictOne and
\* descend into every object field.
strictTraverseLeaves(sch) ==
  [sch EXCEPT !.shape =
     [key \in DOMAIN sch.shape |->
        LET field == sch.shape[key]
            unwrapped == unwrapOptionalAndNullable(field).schema
        IN IF isFlexEnum(unwrapped) THEN SetInner(field, strictOneLeaves(unwrapped))
           ELSE IF isZodObject(unwrapped) THEN SetInner(field, strictTraverseLeaves(unwrapped))
           ELSE field]]

\* The argument of strictEnum as the call leaves it.
strictEnumLeaves(schemaOrFlex) ==
  IF isFlexEnum(schemaOrFlex) \/ isZodEnum(schemaOrFlex)
  THEN strictOneLeaves(schemaOrFlex)
  ELSE IF isZodObject(schemaOrFlex)
  THEN strictTraverseLeaves(schemaOrFlex)
  ELSE schemaOrFlex

\* ---------------------------------------------------------------- flexibility layer
\* Field names as strings of tokens: one name of the inputs contains a dot.
KeyTokens(key) == IF key = "user.role" THEN <<"user", ".", "role">> ELSE <<key>>

RECURSIVE Join(_)
\* newPath.join('.')
Join(path) ==
  IF Len(path) = 0 THEN <<>>
  ELSE IF Len(path) = 1 THEN KeyTokens(path[1])
  ELSE KeyTokens(path[1]) \o <<".">> \o Join(Tail(path))

\* The order in which `for (const key in shape)` visits the field names of the inputs.
KeyOrder == <<"status", "user.role", "user", "name", "role", "profile", "tier">>

KeySeq(shape) == SelectSeq(KeyOrder, LAMBDA key : key \in DOMAIN shape)

EmptyLayer == <<>>

Info(values, description) == [values |-> values, description |-> description]

\* layer[pathStr] = info
Put(layer, pathStr, info) ==
  [q \in DOMAIN layer \cup {pathStr} |-> IF q = pathStr THEN info ELSE layer[q]]

RECURSIVE separateTraverse(_, _, _, _)
RECURSIVE SeparateLoop(_, _, _, _, _)

\* One iteration of the loop of _separateTraverse, from the layer and the `modified`
\* map that the iterations before it left.  strictEnum(unwrapped) is called on a node
\* for which isFlexEnum holds, so it returns _strictOne(unwrapped).
SeparateStep(before, sch, key, path, ref) ==
  LET newPath == Append(path, key)
      pathStr == Join(newPath)
      u == unwrapOptionalAndNullable(sch.shape[key])
      unwrapped == u.schema
  IN IF isFlexEnum(unwrapped)
     THEN LET description ==
                IF isZodUnion(unwrapped)
                THEN OrOpt(unwrapped.options[2].description, unwrapped.metadata.description)
                ELSE unwrapped.metadata.description
              enumPart == IF isZodUnion(unwrapped) THEN unwrapped.options[1] ELSE unwrapped
              values == getEnumValues(enumPart)
              cleaned == strictOne(unwrapped, ref)
              finalField == Rewrap(cleaned, u.isOptional, u.isNullable, ref)
          IN [layer |-> Put(before.layer, pathStr, Info(values, description)),
              modified |-> (key :> finalField) @@ before.modified]
     ELSE IF isZodObject(unwrapped)
     THEN LET nested == separateTraverse(unwrapped, before.layer, newPath, ref)
          IN [layer |-> nested.layer,
              modified |-> IF ~nested.same
                           THEN (key :> Rewrap(nested.node, u.isOptional, u.isNullable, ref))
                                @@ before.modified
                           ELSE before.modified]
     ELSE before

\* The loop `for (const key in shape)` after its first i iterations.
SeparateLoop(sch, i, layer, path, ref) ==
  IF i = 0
  THEN [layer |-> layer, modified |-> <<>>]
  ELSE SeparateStep(SeparateLoop(sch, i - 1, layer, path, ref),
                    sch, KeySeq(sch.shape)[i], path, ref)

\* _separateTraverse: the object returned, whether it is the object passed in, and
\* the layer as the loop leaves it.
separateTraverse(sch, layer, path, ref) ==
  LET last == SeparateLoop(sch, Len(KeySeq(sch.shape)), layer, path, ref)
  IN IF DOMAIN last.modified # {}
     THEN [node |-> Extend(sch, last.modified, ref), same |-> FALSE, layer |-> last.layer]
     ELSE [node |-> sch, same |-> TRUE, layer |-> last.layer]

\* separateFlexibility(schema): { schema, flexityLayer }
separateFlexibility(sch, ref) ==
  IF ~isZodObject(sch)
  THEN [threw |-> TRUE, message |-> <<"separateFlexibility expects a ZodObject">>,
        node |-> NoNode, layer |-> EmptyLayer]
  ELSE LET r == separateTraverse(sch, EmptyLayer, <<>>, ref)
       IN [threw |-> FALSE, message |-> <<>>, node |-> r.node, layer |-> r.layer]

RECURSIVE integrateTraverse(_, _, _, _)
RECURSIVE IntegratedField(_, _, _, _)

\* One iteration of the loop of _integrateTraverse: the entry put in `modified`, if
\* any.  A layer entry at a field that is not an enumerated node ends the iteration,
\* also when the field is an object.
IntegratedField(field, layer, newPath, ref) ==
  LET pathStr == Join(newPath)
      u == unwrapOptionalAndNullable(field)
      unwrapped == u.schema
  IN IF pathStr \in DOMAIN layer
     THEN IF ~isZodEnum(unwrapped)
          THEN None
          ELSE LET info == layer[pathStr]
                   zodInstance == getZodInstanceFromSchema(unwrapped)
                   existingValues == getEnumValues(unwrapped)
                   unionValues == Unique(existingValues \o info.values)
                   baseEnum == ZEnum(zodInstance, toTuple(unionValues), ref)
                   d == OrElse(info.description, DEFAULT_DESC)
                   stringSchema == ZString(zodInstance, Some(d), ref)
                   flex == setMetadata(ZUnion(<<baseEnum, stringSchema>>, ref), Meta(Some(d)))
               IN Some(Rewrap(flex, u.isOptional, u.isNullable, ref))
     ELSE IF isZodObject(unwrapped)
     THEN LET nested == integrateTraverse(unwrapped, layer, newPath, ref)
          IN IF nested # unwrapped
             THEN Some(Rewrap(nested, u.isOptional, u.isNullable, ref))
             ELSE None
     ELSE None

integrateTraverse(sch, layer, path, ref) ==
  LET shape == sch.shape
      upd == [key \in DOMAIN shape |-> IntegratedField(shape[key], layer, Append(path, key), ref)]
      modifiedKeys == {key \in DOMAIN shape : upd[key] # None}
      modified == [key \in modifiedKeys |-> CHOOSE f \in upd[key] : TRUE]
  IN IF modifiedKeys # {} THEN Extend(sch, modified, ref) ELSE sch

\* integrateFlexibility(schema, flexityLayer)
integrateFlexibility(sch, flexityLayer, ref) ==
  IF ~isZodObject(sch)
  THEN Throw(<<"integrateFlexibility expects a ZodObject">>)
  ELSE Ok(integrateTraverse(sch, flexityLayer, <<>>, ref))

\* ---------------------------------------------------------------- inputs
A == <<"a">>
B == <<"b">>
X == <<"x">>
CUSTOM == <<"Pick", "a", "status">>
WRAPPED == <<"test">> \o DEFAULT_DESC \o <<"end">>

Stacks == {"none", "optional", "nullable", "optional.nullable", "nullable.optional",
           "optional.nullable.optional"}

\* The field written leaf<stack>, e.g. "optional.nullable" is leaf.optional().nullable().
Wrapped(leaf, stack) ==
  CASE stack = "none" -> leaf
    [] stack = "optional" -> ZOptional(leaf, 0)
    [] stack = "nullable" -> ZNullable(leaf, 0)
    [] stack = "optional.nullable" -> ZNullable(ZOptional(leaf, 0), 0)
    [] stack = "nullable.optional" -> ZOptional(ZNullable(leaf, 0), 0)
    [] stack = "optional.nullable.optional" -> ZOptional(ZNullable(ZOptional(leaf, 0), 0), 0)

EnumLikeKinds == {"enum", "flex", "flexCustom", "tagged", "taggedCustom"}
OtherKinds == {"untaggedUnion", "reversedUnion", "threeUnion", "string"}

Leaf(kind, g) ==
  LET e == ZEnum(g, <<A, B>>, 0)
  IN CASE kind = "enum" -> e
       [] kind = "flex" -> flexEnumCreate(g, e, None, 0)
       [] kind = "flexCustom" -> flexEnumCreate(g, e, Some(CUSTOM), 0)
       [] kind = "tagged" -> setMetadata(e, Meta(None))
       [] kind = "taggedCustom" -> setMetadata(e, Meta(Some(CUSTOM)))
       [] kind = "untaggedUnion" -> ZUnion(<<e, ZString(g, None, 0)>>, 0)
       [] kind = "reversedUnion" -> setMetadata(ZUnion(<<ZString(g, None, 0), e>>, 0), Meta(None))
       [] kind = "threeUnion" ->
            setMetadata(ZUnion(<<e, ZString(g, None, 0), ZNumber(g, 0)>>, 0), Meta(None))
       [] kind = "string" -> ZString(g, None, 0)

\* { status: <leaf>, user: <object { role: <leaf> }>, name: string }
Root(g, status, user) ==
  ZObject(g, [k \in {"status", "user", "name"} |->
                 CASE k = "status" -> status
                   [] k = "user" -> user
                   [] k = "name" -> ZString(g, None, 0)], 0)

User(g, variant) ==
  IF variant = 1
  THEN ZObject(g, [k \in {"role"} |-> Leaf("enum", g)], 0)
  ELSE Wrapped(ZObject(g, [k \in {"role"} |-> Wrapped(Leaf("flexCustom", g), "nullable")], 0),
               "optional.nullable")

InitSchemas ==
  {Root("v3", Wrapped(Leaf(kind, "v3"), "none"), User("v3", 1)) : kind \in EnumLikeKinds \cup OtherKinds}
  \cup {Root("v3", Wrapped(Leaf(kind, "v3"), stack), User("v3", 2)) :
          kind \in {"enum", "flexCustom"}, stack \in Stacks \ {"none"}}
  \cup {Root("v3", Wrapped(Leaf("tagged", "v3"), "nullable.optional"), User("v3", 2))}
  \cup {Root("v4", Wrapped(Leaf(kind, "v4"), "optional.nullable"), User("v4", 2)) :
          kind \in {"enum", "flex"}}

StatusValues == {UNDEF, NUM, Str(A), Str(X), Str(DEFAULT_DESC), Str(WRAPPED)}

UserValues ==
  {UNDEF} \cup {Obj([k \in {"role"} |-> v]) : v \in {Str(A), Str(X), Str(DEFAULT_DESC)}}

Samples ==
  {NULL} \cup {Obj([k \in {"status", "user", "name", "extra"} |->
                      CASE k = "status" -> sv
                        [] k = "user" -> uv
                        [] k = "name" -> Str(X)
                        [] k = "extra" -> Str(X)]) : sv \in StatusValues, uv \in UserValues}

EditKeys == {"status", "name"}
Additions == {<<X>>, <<B, X, WRAPPED, X>>}
Removals == {<<A>>, <<A, B, X>>}

\* ---------------------------------------------------------------- state machine
NoPrior == [name |-> "none", base |-> <<>>, target |-> NoNode, items |-> <<>>]

\* The record of a call.  prior is filled in when the call is given the node that the
\* call before it returned, and says what that call was.
NoOp ==
  [name |-> "none", input |-> NoNode, data |-> UNDEF, key |-> "", items |-> <<>>,
   base |-> <<>>, description |-> None, target |-> NoNode, flag |-> FALSE, out |-> Ok(NoNode),
   layer |-> EmptyLayer, after |-> NoNode, prior |-> NoPrior]

Init ==
  /\ schema \in InitSchemas
  /\ zodVersion = "v3"
  /\ calls = 0
  /\ chain = <<schema>>
  /\ op = NoOp

\* newSchema = flexEnum(schema, data)
Extend_(data) ==
  /\ calls < MaxCalls
  /\ LET out == flexEnumData(schema, data, calls + 1)
     IN /\ op' = [NoOp EXCEPT !.name = "flexEnum", !.input = schema, !.data = data, !.out = out]
        /\ schema' = IF out.threw THEN schema ELSE out.node
        /\ zodVersion' = IF out.threw THEN zodVersion ELSE detectZodVersion(schema)
        /\ chain' = IF out.threw THEN chain ELSE Append(chain, out.node)
  /\ calls' = calls + 1

\* newSchema = forgeEnum(schema, key, add)
ForgeField(key, add) ==
  /\ calls < MaxCalls
  /\ LET out == forgeEnumKey(schema, key, add, zodVersion, calls + 1)
     IN /\ op' = [NoOp EXCEPT !.name = "forgeEnum", !.input = schema, !.key = key,
                              !.items = add, !.out = out]
        /\ schema' = IF out.threw THEN schema ELSE out.node
        /\ chain' = IF out.threw THEN chain ELSE <<out.node>>
  /\ calls' = calls + 1
  /\ UNCHANGED zodVersion

\* newSchema = limitEnum(schema, key, remove)
LimitField(key, remove) ==
  /\ calls < MaxCalls
  /\ LET out == limitEnumKey(schema, key, remove, calls + 1)
     IN /\ op' = [NoOp EXCEPT !.name = "limitEnum", !.input = schema, !.key = key,
                              !.items = remove, !.out = out]
        /\ schema' = IF out.threw THEN schema ELSE out.node
        /\ chain' = IF out.threw THEN chain ELSE <<out.node>>
  /\ calls' = calls + 1
  /\ UNCHANGED zodVersion

Next ==
  \/ \E data \in Samples : Extend_(data)
  \/ \E key \in EditKeys, add \in Additions : ForgeField(key, add)
  \/ \E key \in EditKeys, remove \in Removals : LimitField(key, remove)

Spec == Init /\ [][Next]_vars

\* ---------------------------------------------------------------- standalone nodes
ProbeNodes ==
  {Leaf(kind, "v3") : kind \in EnumLikeKinds \cup OtherKinds}
  \cup {Leaf(kind, "v4") : kind \in {"enum", "flex"}}
  \cup {Wrapped(Leaf("flex", "v3"), "optional"), Root("v3", Leaf("flex", "v3"), User("v3", 1))}

EnumTargets ==
  {Leaf(kind, "v3") : kind \in {"enum", "taggedCustom", "flexCustom"}} \cup {Leaf("enum", "v4")}

\* The node returned by the previous call, if any.
Previous == IF op.out.node = NoNode THEN {} ELSE {op.out.node}

BaseValues == {<<A, B>>, <<B, A, B>>, <<>>}
AddLists == {<<X>>, <<WRAPPED>>, <<B, X, WRAPPED, X>>, <<>>}
Descriptions == {None, Some(CUSTOM)}
RemoveLists == {<<A>>, <<X>>, <<WRAPPED>>, <<A, X>>, <<A, B, X>>}

\* Object schemas edited by field name, and the names tried on them.
ObjectTargets ==
  {Root("v3", Wrapped(Leaf(kind, "v3"), stack), User("v3", 1)) :
     kind \in {"enum", "flexCustom", "taggedCustom", "string"},
     stack \in {"none", "optional.nullable"}}

FieldKeys == {"status", "name", "missing"}

InitNode ==
  /\ schema = Root("v3", Leaf("enum", "v3"), User("v3", 1))
  /\ zodVersion = "v3"
  /\ calls = 0
  /\ chain = <<schema>>
  /\ op = NoOp

\* isFlexEnum(x)
IsFlexEnumCall(x) ==
  /\ calls < MaxCalls
  /\ op' = [NoOp EXCEPT !.name = "isFlexEnum", !.target = x, !.flag = isFlexEnum(x)]
  /\ calls' = calls + 1
  /\ UNCHANGED <<schema, zodVersion, chain>>

\* forgeEnum(values, add)
ForgeValues(values, add) ==
  /\ calls < MaxCalls
  /\ op' = [NoOp EXCEPT !.name = "forgeEnum", !.base = values, !.items = add,
                        !.out = forgeEnumValues(values, add, zodVersion, calls + 1)]
  /\ calls' = calls + 1
  /\ UNCHANGED <<schema, zodVersion, chain>>

\* forgeEnum(enumDef, add)
ForgeNode(enumDef, add) ==
  /\ calls < MaxCalls
  /\ op' = [NoOp EXCEPT !.name = "forgeEnum", !.target = enumDef, !.items = add,
                        !.out = forgeEnumNode(enumDef, add, zodVersion, calls + 1)]
  /\ calls' = calls + 1
  /\ UNCHANGED <<schema, zodVersion, chain>>

\* flexEnum(values, description?)
FlexValues(values, description) ==
  /\ calls < MaxCalls
  /\ op' = [NoOp EXCEPT !.name = "flexEnum", !.base = values, !.description = description,
                        !.out = flexEnumValues(values, description, zodVersion, calls + 1)]
  /\ calls' = calls + 1
  /\ UNCHANGED <<schema, zodVersion, chain>>

\* flexEnum(enumDef, description?); updateZodInstance(detectZodVersion(enumDef))
FlexNode(enumDef, description) ==
  /\ calls < MaxCalls
  /\ ~isZodObject(enumDef)
  /\ op' = [NoOp EXCEPT !.name = "flexEnum", !.target = enumDef, !.description = description,
                        !.out = flexEnumNode(enumDef, description, calls + 1)]
  /\ zodVersion' = IF isZodEnum(enumDef) THEN detectZodVersion(enumDef) ELSE zodVersion
  /\ calls' = calls + 1
  /\ UNCHANGED <<schema, chain>>

\* limitEnum(values, remove)
LimitValues(values, remove) ==
  /\ calls < MaxCalls
  /\ op' = [NoOp EXCEPT !.name = "limitEnum", !.base = values, !.items = remove,
                        !.out = limitEnumValues(values, remove, zodVersion, calls + 1)]
  /\ calls' = calls + 1
  /\ UNCHANGED <<schema, zodVersion, chain>>

\* limitEnum(enumOrFlex, remove)
LimitNode(a1, remove) ==
  /\ calls < MaxCalls
  /\ ~isZodObject(a1)
  /\ op' = [NoOp EXCEPT !.name = "limitEnum", !.target = a1, !.items = remove,
                        !.out = limitEnumNode(a1, remove, calls + 1),
                        !.prior = IF a1 \in Previous
                                  THEN [name |-> op.name, base |-> op.base,
                                        target |-> op.target, items |-> op.items]
                                  ELSE NoPrior]
  /\ calls' = calls + 1
  /\ UNCHANGED <<schema, zodVersion, chain>>

\* forgeEnum(obj, key, add)
ForgeFieldOf(obj, key, add) ==
  /\ calls < MaxCalls
  /\ op' = [NoOp EXCEPT !.name = "forgeEnum", !.input = obj, !.key = key, !.items = add,
                        !.out = forgeEnumKey(obj, key, add, zodVersion, calls + 1)]
  /\ calls' = calls + 1
  /\ UNCHANGED <<schema, zodVersion, chain>>

\* limitEnum(obj, key, remove)
LimitFieldOf(obj, key, remove) ==
  /\ calls < MaxCalls
  /\ op' = [NoOp EXCEPT !.name = "limitEnum", !.input = obj, !.key = key, !.items = remove,
                        !.out = limitEnumKey(obj, key, remove, calls + 1)]
  /\ calls' = calls + 1
  /\ UNCHANGED <<schema, zodVersion, chain>>

NextNode ==
  \/ \E x \in ProbeNodes \cup Previous : IsFlexEnumCall(x)
  \/ \E values \in BaseValues, add \in AddLists : ForgeValues(values, add)
  \/ \E enumDef \in EnumTargets \cup Previous, add \in AddLists : ForgeNode(enumDef, add)
  \/ \E values \in BaseValues, description \in Descriptions : FlexValues(values, description)
  \/ \E enumDef \in EnumTargets \cup Previous, description \in Descriptions :
        FlexNode(enumDef, description)
  \/ \E values \in BaseValues, remove \in RemoveLists : LimitValues(values, remove)
  \/ \E a1 \in ProbeNodes \cup Previous, remove \in RemoveLists : LimitNode(a1, remove)
  \/ \E obj \in ObjectTargets, key \in FieldKeys, add \in AddLists : ForgeFieldOf(obj, key, add)
  \/ \E obj \in ObjectTargets, key \in FieldKeys, remove \in RemoveLists :
        LimitFieldOf(obj, key, remove)

SpecNode == InitNode /\ [][NextNode]_vars

\* ---------------------------------------------------------------- layered schemas
\* { tier: <flexible enum, nullable> }
Profile(g) == ZObject(g, [k \in {"tier"} |-> Wrapped(Leaf("flex", g), "nullable")], 0)

\* { role: <flexible enum under stack>, profile: <object> }
Account(g, stack) ==
  ZObject(g, [k \in {"role", "profile"} |->
                 IF k = "role" THEN Wrapped(Leaf("flexCustom", g), stack) ELSE Profile(g)], 0)

\* Flexible leaves at depths 1, 2 and 3.
Layered(g, kind, stack) ==
  Root(g, Wrapped(Leaf(kind, g), stack),
       Wrapped(Account(g, stack), IF stack = "none" THEN "none" ELSE "optional"))

\* A field name with a dot beside a nested field of the same dotted path.
Dotted(g) ==
  ZObject(g, [k \in {"user.role", "user", "name"} |->
                 CASE k = "user.role" -> flexEnumCreate(g, ZEnum(g, <<X>>, 0), None, 0)
                   [] k = "user" -> ZObject(g, [j \in {"role"} |-> Leaf("flexCustom", g)], 0)
                   [] k = "name" -> ZString(g, None, 0)], 0)

LayeredSchemas ==
  {Layered("v3", kind, stack) : kind \in EnumLikeKinds, stack \in Stacks}
  \cup {Layered("v4", "flex", "optional.nullable"), Dotted("v3"),
        Root("v3", Leaf("enum", "v3"), User("v3", 1)),
        Root("v3", Leaf("string", "v3"), User("v3", 1))}

StrictTargets ==
  {Leaf(kind, "v3") : kind \in EnumLikeKinds \cup {"string", "untaggedUnion"}}
  \cup {Wrapped(Leaf("flex", "v3"), "optional")}

\* Layers written by hand or kept from an older schema version.
DriftEntries ==
  (Join(<<"status">>) :> Info(<<B, X>>, None))
  @@ (Join(<<"name">>) :> Info(<<A>>, Some(CUSTOM)))
  @@ (Join(<<"missing">>) :> Info(<<A>>, None))
  @@ (Join(<<"user", "role">>) :> Info(<<X, A>>, Some(CUSTOM)))
  @@ (Join(<<"user", "profile", "tier">>) :> Info(<<A, B>>, None))

DriftLayers ==
  {EmptyLayer, DriftEntries, (Join(<<"user">>) :> Info(<<A>>, None)) @@ DriftEntries}

InitLayer ==
  /\ schema \in LayeredSchemas
  /\ zodVersion = "v3"
  /\ calls = 0
  /\ chain = <<schema>>
  /\ op = NoOp

\* schema = deflexStructure(schema)
Strict ==
  /\ calls < MaxCalls
  /\ LET out == strictEnum(schema, calls + 1)
     IN /\ op' = [NoOp EXCEPT !.name = "strictEnum", !.input = schema, !.out = out,
                              !.after = strictEnumLeaves(schema)]
        /\ schema' = out.node
        /\ chain' = Append(chain, out.node)
  /\ calls' = calls + 1
  /\ UNCHANGED zodVersion

\* strictEnum(x) on a node of its own
StrictNode(x) ==
  /\ calls < MaxCalls
  /\ op' = [NoOp EXCEPT !.name = "strictEnum", !.target = x, !.out = strictEnum(x, calls + 1),
                        !.after = strictEnumLeaves(x)]
  /\ calls' = calls + 1
  /\ UNCHANGED <<schema, zodVersion, chain>>

\* { schema, flexityLayer } = separateFlexibility(schema)
Separate ==
  /\ calls < MaxCalls
  /\ LET r == separateFlexibility(schema, calls + 1)
     IN /\ op' = [NoOp EXCEPT !.name = "separateFlexibility", !.input = schema,
                              !.out = Ok(r.node), !.layer = r.layer,
                              !.after = IF isZodObject(schema)
                                        THEN strictTraverseLeaves(schema) ELSE schema]
        /\ schema' = r.node
        /\ chain' = Append(chain, r.node)
  /\ calls' = calls + 1
  /\ UNCHANGED zodVersion

\* schema = integrateFlexibility(schema, flexityLayer); flag records that the layer is
\* the one the preceding separateFlexibility call returned.
Integrate(flexityLayer) ==
  /\ calls < MaxCalls
  /\ LET out == integrateFlexibility(schema, flexityLayer, calls + 1)
     IN /\ op' = [NoOp EXCEPT !.name = "integrateFlexibility", !.input = schema,
                              !.layer = flexityLayer, !.out = out,
                              !.flag = (op.name = "separateFlexibility" /\ flexityLayer = op.layer)]
        /\ schema' = out.node
        /\ chain' = Append(chain, out.node)
  /\ calls' = calls + 1
  /\ UNCHANGED zodVersion

NextLayer ==
  \/ Strict
  \/ \E x \in StrictTargets : StrictNode(x)
  \/ Separate
  \/ \E flexityLayer \in DriftLayers \cup {op.layer} : Integrate(flexityLayer)

SpecLayer == InitLayer /\ [][NextLayer]_vars

\* ---------------------------------------------------------------- mixed sequences
\* Every exported operation, by value list, by node and on the evolving schema, in any
\* order.
MixSchemas ==
  {Root("v3", Leaf("enum", "v3"), User("v3", 1)),
   Root("v3", Wrapped(Leaf("flexCustom", "v3"), "optional.nullable"), User("v3", 2)),
   Root("v4", Wrapped(Leaf("enum", "v4"), "optional.nullable"), User("v4", 2)),
   Layered("v3", "tagged", "nullable")}

MixSamples ==
  {NULL}
  \cup {Obj([k \in {"status", "user"} |->
               IF k = "status" THEN sv ELSE Obj([j \in {"role"} |-> Str(X)])]) :
          sv \in {Str(X), Str(DEFAULT_DESC)}}

MixValues == {<<B, A, B>>, <<>>}
MixAdds == {<<B, X, WRAPPED, X>>, <<>>}
MixRemoves == {<<A>>, <<A, B, X>>}
MixNodes == {Leaf("enum", "v3"), Leaf("taggedCustom", "v3"), Leaf("flex", "v4")}

InitMix ==
  /\ schema \in MixSchemas
  /\ zodVersion = "v3"
  /\ calls = 0
  /\ chain = <<schema>>
  /\ op = NoOp

NextMix ==
  \/ \E data \in MixSamples : Extend_(data)
  \/ \E add \in MixAdds : ForgeField("status", add)
  \/ \E remove \in MixRemoves : LimitField("status", remove)
  \/ Strict
  \/ Separate
  \/ \E flexityLayer \in {DriftEntries, op.layer} : Integrate(flexityLayer)
  \/ \E values \in MixValues : FlexValues(values, None)
  \/ \E values \in MixValues, add \in MixAdds : ForgeValues(values, add)
  \/ \E values \in MixValues, remove \in MixRemoves : LimitValues(values, remove)
  \/ \E enumDef \in MixNodes \cup Previous : FlexNode(enumDef, Some(CUSTOM))
  \/ \E enumDef \in MixNodes \cup Previous, add \in MixAdds : ForgeNode(enumDef, add)
  \/ \E a1 \in MixNodes \cup Previous, remove \in MixRemoves : LimitNode(a1, remove)
  \/ \E x \in MixNodes \cup Previous : StrictNode(x)

SpecMix == InitMix /\ [][NextMix]_vars

TypeOK ==
  /\ isZodObject(schema)
  /\ zodVersion \in Gens
  /\ calls \in 0..MaxCalls

\* ---------------------------------------------------------------- observation
RECURSIVE StripAll(_)
\* The node under every optional / nullable wrapper.
StripAll(x) == IF isZodOptional(x) \/ isZodNullable(x) THEN StripAll(x.innerType) ELSE x

RECURSIVE HasOptional(_)
HasOptional(x) ==
  IF isZodOptional(x) THEN TRUE
  ELSE IF isZodNullable(x) THEN HasOptional(x.innerType) ELSE FALSE

RECURSIVE HasNullable(_)
HasNullable(x) ==
  IF isZodNullable(x) THEN TRUE
  ELSE IF isZodOptional(x) THEN HasNullable(x.innerType) ELSE FALSE

RECURSIVE FieldPaths(_)
\* Root-to-field key sequences of an object node, through nested objects.
FieldPaths(obj) ==
  UNION {{<<k>>} \cup (IF isZodObject(StripAll(obj.shape[k]))
                       THEN {<<k>> \o p : p \in FieldPaths(StripAll(obj.shape[k]))}
                       ELSE {}) : k \in DOMAIN obj.shape}

RECURSIVE FieldAt(_, _)
FieldAt(obj, path) ==
  IF Len(path) = 1 THEN obj.shape[path[1]]
  ELSE FieldAt(StripAll(obj.shape[path[1]]), Tail(path))

RECURSIVE ValueAt(_, _)
ValueAt(data, path) ==
  IF Len(path) = 1 THEN Get(data, path[1])
  ELSE ValueAt(Get(data, path[1]), Tail(path))

NodeAt(obj, path) == StripAll(FieldAt(obj, path))

\* The label sequence of an enumerated node or of a union's enumerated first branch.
Labels(x) ==
  IF isZodEnum(x) THEN x.values
  ELSE IF isZodUnion(x) /\ isZodEnum(x.options[1]) THEN x.options[1].values
  ELSE <<>>

IsEnumField(x) == isZodEnum(x) \/ isFlexEnum(x)

EnumPaths(obj) == {p \in FieldPaths(obj) : IsEnumField(NodeAt(obj, p))}

Pos(s, v) == CHOOSE i \in 1..Len(s) : s[i] = v

\* Every label of s occurs in t, and labels of s keep their relative order in t.
KeepsLabels(s, t) ==
  /\ Range(s) \subseteq Range(t)
  /\ \A a, b \in 1..Len(s) : a < b => Pos(t, s[a]) < Pos(t, s[b])

RECURSIVE Accepts(_, _)
\* node.safeParse(v).success
Accepts(node, v) ==
  CASE isZodObject(node) ->
         v.t = "object" /\ \A k \in DOMAIN node.shape : Accepts(node.shape[k], Get(v, k))
    [] isZodEnum(node) -> v.t = "string" /\ v.s \in Range(node.values)
    [] isZodString(node) -> v.t = "string"
    [] isZodUnion(node) -> \E i \in 1..Len(node.options) : Accepts(node.options[i], v)
    [] isZodOptional(node) -> v = UNDEF \/ Accepts(node.innerType, v)
    [] isZodNullable(node) -> v = NULL \/ Accepts(node.innerType, v)
    [] OTHER -> v.t = "number"

ContainsText(s, text) ==
  \E i \in 1..Len(s), j \in 1..Len(s) : SubSeq(s, i, j) = text

Extended == op.name = "flexEnum" /\ ~op.out.threw

\* ---------------------------------------------------------------- C1
\* C1: monotonic widening.  Along any run of extend calls S(i) = extend(S(i-1), d(i)),
\* every enumerated or flexible-enum field of S(i) is still a field of S(j), i <= j,
\* with every label of S(i) present and in the same relative order.
MonotonicWidening ==
  \A i \in 1..Len(chain), j \in 1..Len(chain) :
    i <= j =>
      \A p \in EnumPaths(chain[i]) :
        /\ p \in EnumPaths(chain[j])
        /\ KeepsLabels(Labels(NodeAt(chain[i], p)), Labels(NodeAt(chain[j], p)))

\* Two successive extend calls each widened the same field.
MonotonicWideningWitness ==
  /\ Len(chain) = 3
  /\ \E p \in EnumPaths(chain[1]) :
       /\ Len(Labels(NodeAt(chain[1], p))) < Len(Labels(NodeAt(chain[2], p)))
       /\ Len(Labels(NodeAt(chain[2], p))) < Len(Labels(NodeAt(chain[3], p)))

\* ---------------------------------------------------------------- C2
\* Every sample value found at an enumerated or flexible-enum field is one of its labels.
AllKnown(sch, data) ==
  /\ data.t = "object"
  /\ \A p \in EnumPaths(sch) :
       LET v == ValueAt(data, p)
       IN v = UNDEF \/ (v.t = "string" /\ v.s \in Range(Labels(NodeAt(sch, p))))

\* C2: idempotence by identity.  When every sample value at an enumerated or
\* flexible-enum field is already a label, extend returns the input schema itself,
\* and repeating the call on the result returns it again.
IdempotenceByIdentity ==
  (op.name = "flexEnum" /\ AllKnown(op.input, op.data)) =>
    /\ ~op.out.threw
    /\ op.out.node = op.input
    /\ flexEnumData(op.out.node, op.data, calls + 1) = Ok(op.input)

\* The call was made twice in a row with a sample that names known labels.
IdempotenceByIdentityWitness ==
  /\ op.name = "flexEnum" /\ AllKnown(op.input, op.data)
  /\ \E p \in EnumPaths(op.input) : ValueAt(op.data, p) # UNDEF
  /\ Len(chain) = 3 /\ chain[1] = chain[2] /\ chain[2] = chain[3]

\* ---------------------------------------------------------------- C3
\* The paths of flexible-enum fields whose sample value is a string that is not
\* a label and does not contain the default-description text.
NovelFlexPaths ==
  {p \in FieldPaths(op.input) :
     LET v == ValueAt(op.data, p)
     IN /\ isFlexEnum(NodeAt(op.input, p))
        /\ v.t = "string"
        /\ v.s \notin Range(Labels(NodeAt(op.input, p)))
        /\ ~ContainsText(v.s, DEFAULT_DESC)}

\* C3 as stated: the widened field has the old labels with the value appended,
\* and the returned schema accepts the whole sample.
WideningAcceptsSample ==
  (Extended /\ NovelFlexPaths # {}) =>
    /\ \A p \in NovelFlexPaths :
         Labels(NodeAt(op.out.node, p)) =
           Append(Labels(NodeAt(op.input, p)), ValueAt(op.data, p).s)
    /\ Accepts(op.out.node, op.data)

\* C3 (amended): for every flexible-enum field, at any nesting depth, whose sample
\* value is a novel string without the default-description text, the returned
\* field has exactly the old labels with that string appended, and the returned
\* field accepts that sample value.
WideningPostcondition ==
  Extended =>
    \A p \in NovelFlexPaths :
      /\ Labels(NodeAt(op.out.node, p)) =
           Append(Labels(NodeAt(op.input, p)), ValueAt(op.data, p).s)
      /\ Accepts(FieldAt(op.out.node, p), ValueAt(op.data, p))

\* A nested flexible enum and a top-level one were widened by the same call.
WideningPostconditionWitness ==
  /\ Extended
  /\ \E p \in NovelFlexPaths : Len(p) = 2
  /\ \E p \in NovelFlexPaths : Len(p) = 1

\* ---------------------------------------------------------------- C4
Tainted(value) == value = DEFAULT_DESC \/ ContainsText(value, DEFAULT_DESC)

\* The labels a call was asked to add at the field of path p.
AddedAt(p) ==
  IF op.name = "flexEnum"
  THEN LET v == ValueAt(op.data, p)
       IN IF IsEnumField(NodeAt(op.input, p)) /\ v.t = "string"
             /\ v.s \notin Range(Labels(NodeAt(op.input, p)))
          THEN {v.s} ELSE {}
  ELSE IF op.name = "forgeEnum" /\ p = <<op.key>> THEN Range(op.items) ELSE {}

\* C4: sanitization.  No label of the schema returned by extend or forgeEnum equals
\* or contains the default-description text; a value to be added that does is
\* replaced by the one label "unknown", which occurs once.
Sanitization ==
  /\ \A p \in FieldPaths(schema) :
       \A i \in 1..Len(Labels(NodeAt(schema, p))) : ~Tainted(Labels(NodeAt(schema, p))[i])
  /\ (op.name \in {"flexEnum", "forgeEnum"} /\ ~op.out.threw) =>
       \A p \in EnumPaths(op.input) :
         LET old == Labels(NodeAt(op.input, p))
             new == Labels(NodeAt(op.out.node, p))
         IN /\ (\E a \in AddedAt(p) : Tainted(a)) =>
                 Cardinality({i \in 1..Len(new) : new[i] = UNKNOWN}) = 1
            /\ Range(new) = Range(old) \cup {a \in AddedAt(p) : ~Tainted(a)}
                              \cup {UNKNOWN : a \in {b \in AddedAt(p) : Tainted(b)}}

\* forgeEnum was given a list holding a value that contains the text, for a field
\* that an earlier call had already given the label "unknown".
SanitizationWitness ==
  /\ op.name = "forgeEnum" /\ ~op.out.threw
  /\ \E a \in AddedAt(<<op.key>>) : Tainted(a) /\ a # DEFAULT_DESC
  /\ UNKNOWN \in Range(Labels(NodeAt(op.input, <<op.key>>)))
  /\ Len(chain) = 1

\* ---------------------------------------------------------------- C5
Rewritten(p) == FieldAt(op.out.node, p) # FieldAt(op.input, p)

\* C5: wrapper preservation.  A field rewritten by extend, forgeEnum(schema, key, ..)
\* or limitEnum(schema, key, ..) is optional iff it was optional and nullable iff it
\* was nullable; it accepts omission and null exactly as before, and after a
\* widening it accepts the new label.
WrapperPreservation ==
  (op.name \in {"flexEnum", "forgeEnum", "limitEnum"} /\ ~op.out.threw) =>
    \A p \in FieldPaths(op.input) :
      Rewritten(p) =>
        LET old == FieldAt(op.input, p)
            new == FieldAt(op.out.node, p)
        IN /\ HasOptional(new) = HasOptional(old)
           /\ HasNullable(new) = HasNullable(old)
           /\ Accepts(new, UNDEF) = Accepts(old, UNDEF)
           /\ Accepts(new, NULL) = Accepts(old, NULL)
           /\ (op.name = "flexEnum" /\ p \in NovelFlexPaths) => Accepts(new, ValueAt(op.data, p))

\* An optional-and-nullable field was widened and accepts omission, null and the label.
WrapperPreservationWitness ==
  /\ Extended
  /\ Rewritten(<<"status">>)
  /\ HasOptional(FieldAt(op.input, <<"status">>))
  /\ HasNullable(FieldAt(op.input, <<"status">>))
  /\ Accepts(schema.shape["status"], UNDEF)
  /\ Accepts(schema.shape["status"], NULL)
  /\ Accepts(schema.shape["status"], Str(X))
  /\ ~Accepts(op.input.shape["status"], Str(X))

\* ---------------------------------------------------------------- C6
IsPlainEnum(x) == isZodEnum(x) /\ ~x.metadata.enumForge

\* C6: implicit promotion.  A plain enumerated field whose sample value is a novel
\* string comes back as a tagged union of an enumerated branch (old labels, then the
\* sanitized value) and a string branch described by the default description; when the
\* value is already a label the field is the same node as before.
ImplicitPromotion ==
  Extended =>
    \A p \in FieldPaths(op.input) :
      IsPlainEnum(NodeAt(op.input, p)) =>
        LET old == NodeAt(op.input, p)
            new == NodeAt(op.out.node, p)
            v == ValueAt(op.data, p)
        IN /\ (v.t = "string" /\ v.s \notin Range(old.values)) =>
                /\ isZodUnion(new) /\ Len(new.options) = 2
                /\ isZodEnum(new.options[1]) /\ isZodString(new.options[2])
                /\ new.metadata.enumForge
                /\ isFlexEnum(new)
                /\ new.options[1].values =
                     IF Tainted(v.s)
                     THEN (IF UNKNOWN \in Range(old.values) THEN old.values
                           ELSE Append(old.values, UNKNOWN))
                     ELSE Append(old.values, v.s)
                /\ new.options[2].description = Some(DEFAULT_DESC)
           /\ (v.t = "string" /\ v.s \in Range(old.values)) =>
                /\ FieldAt(op.out.node, p) = FieldAt(op.input, p)
                /\ IsPlainEnum(new)

\* One call promoted a plain enum and left another, whose value was known, plain.
ImplicitPromotionWitness ==
  /\ Extended
  /\ \E p \in FieldPaths(op.input) :
       /\ IsPlainEnum(NodeAt(op.input, p)) /\ isFlexEnum(NodeAt(op.out.node, p))
       /\ ValueAt(op.data, p) = Str(X)
  /\ \E p \in FieldPaths(op.input) :
       /\ IsPlainEnum(NodeAt(op.input, p)) /\ IsPlainEnum(NodeAt(op.out.node, p))
       /\ ValueAt(op.data, p) = Str(A)

\* ---------------------------------------------------------------- C7
\* The description a flexible enum shows to the producer of data: that of the string
\* branch of a union, that of the tag (or the default) for a tagged plain enum.
Guidance(x) ==
  IF isZodUnion(x) THEN x.options[2].description
  ELSE Some(OrElse(x.metadata.description, DEFAULT_DESC))

\* C7: the description survives widening.  When extend rewrites a flexible-enum
\* field, the string branch of the new union carries the description of the old
\* string branch (of the tag, or the default, for a tagged plain enum), and so it
\* does along any run of successive extend calls.
DescriptionSurvives ==
  /\ Extended =>
       \A p \in FieldPaths(op.input) :
         (isFlexEnum(NodeAt(op.input, p)) /\ Rewritten(p)) =>
           /\ isZodUnion(NodeAt(op.out.node, p))
           /\ NodeAt(op.out.node, p).options[2].description = Guidance(NodeAt(op.input, p))
  /\ \A i \in 1..Len(chain), j \in 1..Len(chain) :
       i <= j =>
         \A p \in FieldPaths(chain[i]) :
           isFlexEnum(NodeAt(chain[i], p)) =>
             Guidance(NodeAt(chain[j], p)) = Guidance(NodeAt(chain[i], p))

\* A flexible enum with a custom description was widened twice in a row.
DescriptionSurvivesWitness ==
  /\ Len(chain) = 3
  /\ \E p \in FieldPaths(chain[1]) :
       /\ isFlexEnum(NodeAt(chain[1], p))
       /\ Guidance(NodeAt(chain[3], p)) = Some(CUSTOM)
       /\ Len(Labels(NodeAt(chain[1], p))) < Len(Labels(NodeAt(chain[2], p)))
       /\ Len(Labels(NodeAt(chain[2], p))) < Len(Labels(NodeAt(chain[3], p)))

\* ---------------------------------------------------------------- C8
LeafPaths(obj) == {p \in FieldPaths(obj) : ~isZodObject(NodeAt(obj, p))}

\* C8: structural sharing.  In the schema returned by extend a field is a new node
\* exactly when its label set changed; every other field is the node of the input.
StructuralSharing ==
  Extended =>
    \A p \in LeafPaths(op.input) :
      Rewritten(p) <=>
        Range(Labels(NodeAt(op.out.node, p))) # Range(Labels(NodeAt(op.input, p)))

\* ---------------------------------------------------------------- C9
\* C9: isFlexEnum(x) is true exactly when x is a union of exactly two branches, an
\* enumerated one then a string one, that carries the tag enumForge = true, or x is an
\* enumerated node that carries the tag.
FlexEnumRecognition ==
  op.name = "isFlexEnum" =>
    LET x == op.target
    IN op.flag <=>
         \/ /\ x.kind = "ZodUnion"
            /\ Len(x.options) = 2
            /\ x.options[1].kind = "ZodEnum"
            /\ x.options[2].kind = "ZodString"
            /\ x.metadata.present /\ x.metadata.enumForge
         \/ /\ x.kind = "ZodEnum"
            /\ x.metadata.present /\ x.metadata.enumForge

\* A tagged union of three branches was asked about, as the second call of a run.
FlexEnumRecognitionWitness ==
  /\ op.name = "isFlexEnum"
  /\ op.target = Leaf("threeUnion", "v3")
  /\ ~op.flag
  /\ calls = 2

\* ---------------------------------------------------------------- C10
FirstPos(s, v) == CHOOSE i \in 1..Len(s) : s[i] = v /\ \A j \in 1..(i - 1) : s[j] # v

\* r lists each element of s once, ordered by first occurrence in s.
IsFirstOccurrences(r, s) ==
  /\ Range(r) = Range(s)
  /\ \A a, b \in 1..Len(r) : a < b => FirstPos(s, r[a]) < FirstPos(s, r[b])

\* The label sequence forgeEnum was given as its target.
ForgeBase == IF op.target = NoNode THEN op.base ELSE op.target.values

\* C10: forgeEnum(target, toAdd) on a label sequence or an enumerated node returns an
\* enumerated node without tag or string branch whose labels are the target's labels
\* followed by the added labels, each one that contains the default-description text
\* replaced by "unknown", without duplicates and in order of first occurrence.
ForgeEnumResult ==
  (op.name = "forgeEnum" /\ op.key = "" /\ ~op.out.threw) =>
    LET new == op.out.node
        full == ForgeBase \o [i \in 1..Len(op.items) |->
                                IF Tainted(op.items[i]) THEN UNKNOWN ELSE op.items[i]]
    IN /\ new.kind = "ZodEnum"
       /\ ~new.metadata.present
       /\ ~isFlexEnum(new)
       /\ IsFirstOccurrences(new.values, full)

\* A tagged enumerated node was extended by a list with a known label, a repeated
\* new one and a value containing the text.
ForgeEnumResultWitness ==
  /\ op.name = "forgeEnum" /\ ~op.out.threw
  /\ op.target = Leaf("taggedCustom", "v3")
  /\ op.out.node.values = <<A, B, X, UNKNOWN>>

\* ---------------------------------------------------------------- C11
\* The call edited a field by name, and the schema has a field of that name.
ByKey == op.key # "" /\ op.key \in DOMAIN op.input.shape

\* The node the call addressed: the named field under its wrappers, or the node given.
Addressed ==
  IF op.key # ""
  THEN IF ByKey THEN NodeAt(op.input, <<op.key>>) ELSE NoNode
  ELSE op.target

\* The node that took its place in the result.
Replacement ==
  IF op.out.threw THEN NoNode
  ELSE IF op.key # "" THEN NodeAt(op.out.node, <<op.key>>) ELSE op.out.node

\* C11: forgeEnum on a flexible enum, given as a node or as the named field of an
\* object schema, succeeds and returns the old labels together with the added ones.
ForgeOnFlexible ==
  (op.name = "forgeEnum" /\ Addressed # NoNode /\ isFlexEnum(Addressed)) =>
    /\ ~op.out.threw
    /\ Range(Labels(Addressed)) \cup {sanitizeEnumValue(op.items[i]) : i \in 1..Len(op.items)}
         = Range(Labels(Replacement))

\* ---------------------------------------------------------------- C12
\* The message quotes the field name.
NamesKey(message, key) == \E i \in 1..Len(message) : message[i] = key

\* C12: forgeEnum(schema, key, toAdd) and limitEnum(schema, key, toRemove) fail with an
\* error whose message names key, and return no schema, whenever the field at key,
\* under its wrappers, is not an enumerated node (for limitEnum: neither an enumerated
\* node nor a flexible enum).
NonEnumGuard ==
  (op.name \in {"forgeEnum", "limitEnum"} /\ op.key # ""
     /\ ~(ByKey /\ (isZodEnum(Addressed) \/ (op.name = "limitEnum" /\ isFlexEnum(Addressed))))) =>
    /\ op.out.threw
    /\ NamesKey(op.out.message, op.key)
    /\ op.out.node = NoNode

\* ---------------------------------------------------------------- C13
\* limitEnum was given a label sequence, an enumerated node, a flexible enum, or the
\* name of a field holding one of the two.
LimitApplies ==
  /\ op.name = "limitEnum"
  /\ IF op.key = "" /\ op.target = NoNode THEN TRUE
     ELSE Addressed # NoNode /\ IsEnumField(Addressed)

\* The labels limitEnum starts from.
LimitBase == IF op.key = "" /\ op.target = NoNode THEN op.base ELSE Labels(Addressed)

\* C13: limitEnum fails, returning nothing, whenever every current label is in the
\* removal set, whether the target is a label sequence, an enumerated node, a flexible
\* enum or a schema field; flexEnum(labels) fails on an empty label sequence.
EmptyResultGuard ==
  /\ (LimitApplies /\ Range(LimitBase) \subseteq Range(op.items)) =>
       /\ op.out.threw
       /\ op.out.message = <<"Resulting enum would be empty.">>
       /\ op.out.node = NoNode
  /\ (op.name = "flexEnum" /\ op.input = NoNode /\ op.target = NoNode /\ op.base = <<>>) =>
       /\ op.out.threw
       /\ op.out.message = <<"Enum must have at least one value.">>
       /\ op.out.node = NoNode

\* Every label of a flexible-enum field was removed by name, and the call failed.
EmptyResultGuardWitness ==
  /\ LimitApplies /\ ByKey
  /\ isZodUnion(Addressed)
  /\ Range(LimitBase) \subseteq Range(op.items)
  /\ op.out.threw

\* ---------------------------------------------------------------- C14
\* C14: a limitEnum call that does not fail returns a node whose labels are exactly the
\* target's current labels that are not in the removal set, in their original order;
\* removal labels that are absent are ignored; removal by field name leaves every
\* other field of the schema the same node.
LimitEnumResult ==
  (LimitApplies /\ ~op.out.threw) =>
    LET new == Labels(Replacement)
    IN /\ Range(new) = Range(LimitBase) \ Range(op.items)
       /\ \A a, b \in 1..Len(new) : a < b => FirstPos(LimitBase, new[a]) < FirstPos(LimitBase, new[b])
       /\ ByKey => /\ DOMAIN op.out.node.shape = DOMAIN op.input.shape
                   /\ \A k \in DOMAIN op.input.shape \ {op.key} :
                        op.out.node.shape[k] = op.input.shape[k]

\* A label was removed from a field by name, together with a label the field lacks.
LimitEnumResultWitness ==
  /\ LimitApplies /\ ByKey /\ ~op.out.threw
  /\ Range(op.items) \cap Range(LimitBase) # {}
  /\ Range(op.items) \ Range(LimitBase) # {}
  /\ Len(Labels(Replacement)) < Len(LimitBase)

\* ---------------------------------------------------------------- C15
\* C15: limitEnum on a flexible union, standalone or as a schema field, returns a node
\* that is still a flexible enum: only the labels of the enumerated branch change, and
\* the description of the string branch is the one it had before the call.
LimitKeepsFlexible ==
  (LimitApplies /\ ~op.out.threw /\ isZodUnion(Addressed)) =>
    /\ isFlexEnum(Replacement)
    /\ isZodUnion(Replacement)
    /\ Replacement.options[2].description = Addressed.options[2].description
    /\ ByKey => /\ HasOptional(FieldAt(op.out.node, <<op.key>>)) = HasOptional(FieldAt(op.input, <<op.key>>))
                /\ HasNullable(FieldAt(op.out.node, <<op.key>>)) = HasNullable(FieldAt(op.input, <<op.key>>))

\* A label was removed from a standalone flexible union with a description of its own.
LimitKeepsFlexibleWitness ==
  /\ LimitApplies /\ ~op.out.threw /\ op.key = ""
  /\ isZodUnion(Addressed)
  /\ Addressed.options[2].description = Some(CUSTOM)
  /\ Len(Labels(Replacement)) < Len(Labels(Addressed))

\* ---------------------------------------------------------------- C16
FlexPaths(obj) == {p \in FieldPaths(obj) : isFlexEnum(NodeAt(obj, p))}

IsPlain(x) == isZodEnum(x) /\ x.metadata = NoMeta

SameFlags(x, y) == HasOptional(x) = HasOptional(y) /\ HasNullable(x) = HasNullable(y)

\* C16: strictEnum / deflexStructure on a flexible-enum node returns a plain enumerated
\* node with the same label sequence, for which isFlexEnum is false; on an object
\* schema it returns a schema in which no field at any depth is a flexible enum, every
\* formerly flexible field keeps its labels and its optional / nullable flags, and a
\* schema with no flexible field is returned as the same reference.
StrictResult ==
  (op.name = "strictEnum") =>
    /\ (op.target # NoNode /\ isFlexEnum(op.target)) =>
         /\ ~op.out.threw
         /\ IsPlain(op.out.node)
         /\ ~isFlexEnum(op.out.node)
         /\ op.out.node.values = Labels(op.target)
    /\ (op.input # NoNode) =>
         /\ ~op.out.threw
         /\ FieldPaths(op.out.node) = FieldPaths(op.input)
         /\ \A p \in FieldPaths(op.out.node) : ~isFlexEnum(NodeAt(op.out.node, p))
         /\ \A p \in FlexPaths(op.input) :
              /\ IsPlain(NodeAt(op.out.node, p))
              /\ Labels(NodeAt(op.out.node, p)) = Labels(NodeAt(op.input, p))
              /\ SameFlags(FieldAt(op.out.node, p), FieldAt(op.input, p))
         /\ FlexPaths(op.input) = {} => op.out.node = op.input

\* A schema with a flexible union three levels deep and an optional and nullable
\* flexible field was made strict.
StrictResultWitness ==
  /\ op.name = "strictEnum" /\ op.input # NoNode /\ ~op.out.threw
  /\ \E p \in FlexPaths(op.input) : Len(p) = 3 /\ isZodUnion(NodeAt(op.input, p))
  /\ \E p \in FlexPaths(op.input) :
       HasOptional(FieldAt(op.input, p)) /\ HasNullable(FieldAt(op.input, p))

\* ---------------------------------------------------------------- C17
\* The description a flexible enum carries: on its string branch, or on the tag of a
\* tagged plain enum.
FlexDescription(x) ==
  IF isZodUnion(x) THEN x.options[2].description ELSE x.metadata.description

\* C17: separateFlexibility(S) returns a layer with an entry for exactly the
\* flexible-enum fields of S, keyed by the dotted root-to-leaf path, each entry holding
\* that field's current label sequence and its description, and a schema in which
\* each of those fields is a plain enumerated node with the same labels and the same
\* optional / nullable flags and no field at any depth is flexible; fields that are
\* neither flexible enums nor objects are the same nodes as in S.
SeparateResult ==
  (op.name = "separateFlexibility") =>
    LET S == op.input
        T == op.out.node
    IN /\ ~op.out.threw
       /\ DOMAIN op.layer = {Join(p) : p \in FlexPaths(S)}
       /\ \A p \in FlexPaths(S) :
            /\ op.layer[Join(p)].values = Labels(NodeAt(S, p))
            /\ op.layer[Join(p)].description = FlexDescription(NodeAt(S, p))
            /\ IsPlain(NodeAt(T, p))
            /\ Labels(NodeAt(T, p)) = Labels(NodeAt(S, p))
            /\ SameFlags(FieldAt(T, p), FieldAt(S, p))
       /\ FieldPaths(T) = FieldPaths(S)
       /\ \A p \in FieldPaths(T) :
            /\ ~isFlexEnum(NodeAt(T, p))
            /\ (~isFlexEnum(NodeAt(S, p)) /\ ~isZodObject(NodeAt(S, p))) => FieldAt(T, p) = FieldAt(S, p)

\* ---------------------------------------------------------------- C18
\* The fields of obj whose dotted path is q.
Resolved(obj, q) == {p \in FieldPaths(obj) : Join(p) = q}

\* C18: integrateFlexibility(S, layer): for every layer path that resolves in S, under
\* its wrappers, to an enumerated node, the field in the result is a flexible union
\* whose labels are the field's current labels followed by the layer's labels not
\* already present, whose description is the layer's (the default when it has none),
\* and whose optional / nullable flags are those of the field in S; fields whose path
\* is not in the layer are unchanged, and an empty layer returns S itself.
IntegrateResult ==
  (op.name = "integrateFlexibility") =>
    LET S == op.input
        R == op.out.node
    IN /\ ~op.out.threw
       /\ FieldPaths(R) = FieldPaths(S)
       /\ \A p \in FieldPaths(S) :
            LET old == NodeAt(S, p)
                new == NodeAt(R, p)
            IN /\ (Join(p) \in DOMAIN op.layer /\ isZodEnum(old)) =>
                    LET info == op.layer[Join(p)]
                    IN /\ isZodUnion(new) /\ isFlexEnum(new)
                       /\ IsFirstOccurrences(Labels(new), old.values \o info.values)
                       /\ SubSeq(Labels(new), 1, Len(old.values)) = old.values
                       /\ new.options[2].description = Some(OrElse(info.description, DEFAULT_DESC))
                       /\ SameFlags(FieldAt(R, p), FieldAt(S, p))
               /\ (Join(p) \notin DOMAIN op.layer /\ ~isZodObject(old)) =>
                    FieldAt(R, p) = FieldAt(S, p)
       /\ op.layer = EmptyLayer => R = S

\* ---------------------------------------------------------------- C19
\* C19: drift tolerance.  A layer entry whose path is missing from the schema, or
\* resolves to a node that is not enumerated (a string, an object, a union that is
\* still flexible), never makes integrateFlexibility fail and changes nothing at that
\* path, and every other entry that resolves to an enumerated node is still applied,
\* also when it lies below a skipped path.
DriftTolerance ==
  (op.name = "integrateFlexibility") =>
    /\ ~op.out.threw
    /\ FieldPaths(op.out.node) = FieldPaths(op.input)
    /\ \A q \in DOMAIN op.layer :
         \A p \in Resolved(op.input, q) :
           LET old == NodeAt(op.input, p)
               new == NodeAt(op.out.node, p)
           IN IF isZodEnum(old) THEN isFlexEnum(new) /\ isZodUnion(new)
              ELSE IF isZodObject(old) THEN isZodObject(new)
              ELSE FieldAt(op.out.node, p) = FieldAt(op.input, p)

\* ---------------------------------------------------------------- C20
RECURSIVE WrapperStack(_)
\* The optional / nullable wrappers of a field, outermost first.
WrapperStack(x) ==
  IF isZodOptional(x) \/ isZodNullable(x) THEN <<x.kind>> \o WrapperStack(x.innerType) ELSE <<>>

\* The schema separateFlexibility was given two calls ago.
Separated == chain[Len(chain) - 2]

\* C20: round trip.  With (T, L) = separateFlexibility(S), integrateFlexibility(T, L)
\* has at every flexible path of S a flexible enum with the same label sequence, the
\* same description and the same wrapper stacking as in S, and every field that is
\* neither flexible nor an object is as in S.
RoundTrip ==
  (op.name = "integrateFlexibility" /\ op.flag) =>
    /\ ~op.out.threw
    /\ FieldPaths(op.out.node) = FieldPaths(Separated)
    /\ \A p \in FieldPaths(Separated) :
         LET old == NodeAt(Separated, p)
             new == NodeAt(op.out.node, p)
         IN IF isFlexEnum(old)
            THEN /\ isFlexEnum(new)
                 /\ Labels(new) = Labels(old)
                 /\ Guidance(new) = Guidance(old)
                 /\ WrapperStack(FieldAt(op.out.node, p)) = WrapperStack(FieldAt(Separated, p))
            ELSE ~isZodObject(old) => FieldAt(op.out.node, p) = FieldAt(Separated, p)

\* ---------------------------------------------------------------- C21
\* The argument of the call, as it was when the call was made.
Argument == IF op.input # NoNode THEN op.input ELSE op.target

\* C21: no operation mutates its input.  After a strictEnum / deflexStructure or
\* separateFlexibility call, successful or failing, the schema or node passed in has
\* the labels, tag (isFlexEnum value and description) and wrappers it had before.
NoInputMutation ==
  op.name \in {"strictEnum", "separateFlexibility"} => op.after = Argument

\* ---------------------------------------------------------------- C22
\* C22: wrapper order.  Whatever the stack of optional / nullable wrappers around a
\* field, a field rewritten by extend, forgeEnum(schema, key, ..) or
\* limitEnum(schema, key, ..) has the wrappers of the original field, outermost first,
\* in the same order and number.
WrapperOrder ==
  (op.name \in {"flexEnum", "forgeEnum", "limitEnum"} /\ ~op.out.threw) =>
    \A p \in FieldPaths(op.input) :
      Rewritten(p) => WrapperStack(FieldAt(op.out.node, p)) = WrapperStack(FieldAt(op.input, p))

\* ---------------------------------------------------------------- C23
RECURSIVE EnumNodes(_)
\* The enumerated nodes of a schema tree: under wrappers, in union branches and in
\* object fields at any depth.
EnumNodes(x) ==
  CASE isZodEnum(x) -> {x}
    [] isZodOptional(x) \/ isZodNullable(x) -> EnumNodes(x.innerType)
    [] isZodUnion(x) -> UNION {EnumNodes(x.options[i]) : i \in 1..Len(x.options)}
    [] isZodObject(x) -> UNION {EnumNodes(x.shape[k]) : k \in DOMAIN x.shape}
    [] OTHER -> {}

\* The node the last call returned, if it returned one.
Returned == IF op.out.threw \/ op.out.node = NoNode THEN {} ELSE {op.out.node}

\* C23: enumerated-node invariant.  Every enumerated node in what any sequence of
\* flexEnum, extend, forgeEnum, limitEnum, strictEnum, separateFlexibility and
\* integrateFlexibility calls returns has at least one label, and its labels are
\* pairwise distinct.
EnumNodeInvariant ==
  \A x \in Returned \cup {schema} :
    \A e \in EnumNodes(x) :
      /\ Len(e.values) >= 1
      /\ \A i, j \in 1..Len(e.values) : e.values[i] = e.values[j] => i = j

\* A second or later call was given a list with a repeated value and returned an
\* enumerated node.
EnumNodeInvariantWitness ==
  /\ calls >= 2
  /\ op.name = "forgeEnum"
  /\ \E i, j \in 1..Len(op.base) : i # j /\ op.base[i] = op.base[j]
  /\ \E e \in EnumNodes(op.out.node) : Len(e.values) >= 2

\* ---------------------------------------------------------------- C24
\* C24: tag invariant.  Every flexible union in the schema an operation returns, a
\* field widened by extend included, carries the tag { enumForge: true, description }
\* whose description is a string, the description of the union's string branch.
TagInvariant ==
  (~op.out.threw /\ isZodObject(op.out.node)) =>
    \A p \in FlexPaths(op.out.node) :
      LET x == NodeAt(op.out.node, p)
      IN isZodUnion(x) =>
           /\ x.metadata.enumForge
           /\ x.metadata.description # None
           /\ x.metadata.description = x.options[2].description

\* ---------------------------------------------------------------- C25
\* C25: failure semantics of extend.  flexEnum(schema, sample) on an object schema
\* returns a schema for every sample: a null or otherwise empty sample yields the
\* schema passed in, a field whose sample value is absent or not a string is the node
\* it was, and sample keys the schema does not have add no field.
ExtendIsTotal ==
  (op.name = "flexEnum" /\ isZodObject(op.input)) =>
    /\ ~op.out.threw
    /\ ~Truthy(op.data) => op.out.node = op.input
    /\ \A p \in EnumPaths(op.input) :
         ValueAt(op.data, p).t # "string" => FieldAt(op.out.node, p) = FieldAt(op.input, p)
    /\ FieldPaths(op.out.node) = FieldPaths(op.input)

\* ---------------------------------------------------------------- C26
\* C26: library-generation independence.  The enumerated nodes of a field that extend,
\* forgeEnum(schema, key, ..) or limitEnum(schema, key, ..) rewrote are of the library
\* generation of the schema the call was given, whatever calls were made before it.
GenerationOfInput ==
  (op.name \in {"flexEnum", "forgeEnum", "limitEnum"} /\ isZodObject(op.input) /\ ~op.out.threw) =>
    \A p \in FieldPaths(op.input) :
      Rewritten(p) => \A e \in EnumNodes(FieldAt(op.out.node, p)) : e.gen = op.input.gen

\* ---------------------------------------------------------------- C27
\* C27: limitEnum on a plain enumerated node that carries the flexible tag, standalone
\* or as a schema field, returns an enumerated node that still carries the tag
\* enumForge = true with the same description: isFlexEnum stays true.
LimitKeepsTag ==
  (LimitApplies /\ ~op.out.threw /\ isZodEnum(Addressed) /\ isFlexEnum(Addressed)) =>
    /\ isZodEnum(Replacement)
    /\ isFlexEnum(Replacement)
    /\ Replacement.metadata.enumForge
    /\ Replacement.metadata.description = Addressed.metadata.description

\* ---------------------------------------------------------------- C28
\* C28: no churn without growth.  The schema extend returns is another object than
\* the schema it was given only if the label set of some field is a strict superset
\* of what it was; when all label sets come out equal the result is the input itself,
\* also for a sample value holding the default-description text when "unknown" is
\* already a label.
NoChurn ==
  (Extended /\ op.out.node # op.input) =>
    \E p \in EnumPaths(op.input) :
      /\ Range(Labels(NodeAt(op.input, p))) \subseteq Range(Labels(NodeAt(op.out.node, p)))
      /\ Range(Labels(NodeAt(op.input, p))) # Range(Labels(NodeAt(op.out.node, p)))

\* ---------------------------------------------------------------- C29
\* The labels E that forgeEnum(E, x) started from, E a label sequence or a node.
PriorBase == IF op.prior.target = NoNode THEN op.prior.base ELSE Labels(op.prior.target)

\* limitEnum(forgeEnum(E, x), x): E a label sequence or an enumerated node, x one
\* string that is not a label of E.
AddThenRemove ==
  /\ op.name = "limitEnum"
  /\ op.prior.name = "forgeEnum"
  /\ op.prior.target # NoNode => isZodEnum(op.prior.target)
  /\ Len(op.items) = 1
  /\ op.prior.items = op.items
  /\ op.items[1] \notin Range(PriorBase)

\* C29 as stated: limitEnum(forgeEnum(E, x), x) has exactly the label sequence of E,
\* for every enumerated node or label sequence E and every string x not a label of E.
AddRemoveRoundTripStated ==
  AddThenRemove => (~op.out.threw /\ Labels(op.out.node) = PriorBase)

\* C29 (amended): for every enumerated node, or non-empty sequence of distinct labels,
\* E and every string x that is not a label of E and does not contain the
\* default-description text, limitEnum(forgeEnum(E, x), x) is an enumerated node with
\* exactly the label sequence of E.
AddRemoveRoundTrip ==
  (/\ AddThenRemove
   /\ ~Tainted(op.items[1])
   /\ PriorBase # <<>>
   /\ \A i, j \in 1..Len(PriorBase) : PriorBase[i] = PriorBase[j] => i = j) =>
    /\ ~op.out.threw
    /\ isZodEnum(op.out.node)
    /\ Labels(op.out.node) = PriorBase

\* x was added to, then removed from, an enumerated node with two labels.
AddRemoveRoundTripWitness ==
  /\ AddThenRemove
  /\ isZodEnum(op.prior.target)
  /\ op.items = <<X>>
  /\ ~op.out.threw
  /\ Labels(op.out.node) = <<A, B>>

\* ---------------------------------------------------------------- C30
\* Same label set, same flexible / plain status and same description.
SameField(x, y) ==
  /\ IsEnumField(x) = IsEnumField(y)
  /\ IsEnumField(x) =>
       /\ Range(Labels(x)) = Range(Labels(y))
       /\ isFlexEnum(x) = isFlexEnum(y)
       /\ isZodUnion(x) = isZodUnion(y)
       /\ FlexDescription(x) = FlexDescription(y)

\* The schema two successful extend calls ago.
Start == chain[Len(chain) - 2]

\* C30: order-independence.  For every object schema S and samples d1, d2,
\* extend(extend(S, d1), d2) and extend(extend(S, d2), d1) have at every field the
\* same label set, the same flexible / plain status and the same description.
OrderIndependence ==
  (Extended /\ Len(chain) >= 3) =>
    \A d1 \in Samples, r \in 1..(calls - 1) :
      flexEnumData(Start, d1, r) = Ok(op.input) =>
        LET other == flexEnumData(flexEnumData(Start, op.data, r).node, d1, calls)
        IN /\ ~other.threw
           /\ FieldPaths(other.node) = FieldPaths(op.out.node)
           /\ \A p \in FieldPaths(op.out.node) :
                SameField(NodeAt(op.out.node, p), NodeAt(other.node, p))

\* Two samples with different novel values for the same field were applied one after
\* the other.
OrderIndependenceWitness ==
  /\ Extended /\ Len(chain) >= 3
  /\ Get(op.data, "status") = Str(DEFAULT_DESC)
  /\ Range(Labels(NodeAt(op.out.node, <<"status">>))) = {A, B, X, UNKNOWN}
  /\ Range(Labels(NodeAt(Start, <<"status">>))) = {A, B}

====
